---------------------------- MODULE Spec2Model ----------------------------
(***************************************************************************)
(* Model of api_server.py: the SmartFarm telemetry API.                    *)
(*                                                                         *)
(* The process imports the module (credentials check, lazy MongoClient),   *)
(* then serves GET / (read_root) and GET /data/{source}                    *)
(* (get_telemetry_data).  The store (MongoDB) is owned by somebody else:   *)
(* its contents are fixed during a behaviour, its reachability changes.    *)
(*                                                                         *)
(* Text is modelled as a sequence of one-character strings wherever the    *)
(* code works on characters (str.lower, quote_plus); messages are          *)
(* sequences of pieces, so "embeds" is a statement about a piece.          *)
(* Time is an integer number of days; negative values are earlier dates.   *)
(***************************************************************************)
EXTENDS Integers, Sequences, FiniteSets, TLC

VARIABLES
    pc,        \* "boot" | "running" | "aborted": the process
    environ,   \* os.environ after load_dotenv(): MONGO_USER, MONGO_PASSWORD, MONGO_HOST
    client,    \* module-level client/db handle (<<>> before the import has run)
    conn,      \* "up" | "down": whether the store can be reached
    store,     \* the two collections, each a sequence of documents in natural order
    now,       \* datetime.utcnow()
    req,       \* the last request handled
    resp,      \* its response
    issued,    \* the store queries it issued, in order
    fault      \* what the store raised while serving it ("none" when nothing)

vars == <<pc, environ, client, conn, store, now, req, resp, issued, fault>>

----------------------------------------------------------------------------
(* Bounds of the model *)

MaxDocs == 2     \* documents in the store (both collections together)
MaxNow == 1      \* the clock runs from 0 to MaxNow

(* Program constants *)

Week == 7                     \* timedelta(days=7)
MONGO_DB_NAME == <<"Smart_Framing_Db">>

None == <<>>                  \* an absent optional value; Some(v) is <<v>>
Some(v) == <<v>>

----------------------------------------------------------------------------
(* Text *)

UpperCase == <<"A","B","C","D","E","F","G","H","I","J","K","L","M",
               "N","O","P","Q","R","S","T","U","V","W","X","Y","Z">>
LowerCase == <<"a","b","c","d","e","f","g","h","i","j","k","l","m",
               "n","o","p","q","r","s","t","u","v","w","x","y","z">>

LowerOf ==
    [c \in {UpperCase[i] : i \in DOMAIN UpperCase} |->
        LowerCase[CHOOSE i \in DOMAIN UpperCase : UpperCase[i] = c]]

LowerChar(c) == IF c \in DOMAIN LowerOf THEN LowerOf[c] ELSE c

\* str.lower()
Lower(s) == [i \in DOMAIN s |-> LowerChar(s[i])]

smartfarm == <<"s","m","a","r","t","f","a","r","m">>
raspberrypi == <<"r","a","s","p","b","e","r","r","y","p","i">>

\* Characters urllib leaves alone in quote_plus (those the model uses)
Unreserved == {LowerCase[i] : i \in DOMAIN LowerCase} \cup {"_", ".", "-", "~"}

QuoteChar(c) ==
    IF c \in Unreserved THEN c
    ELSE IF c = " " THEN "+"
    ELSE IF c = "@" THEN "%40"
    ELSE IF c = ":" THEN "%3A"
    ELSE IF c = "/" THEN "%2F"
    ELSE "%25"

\* urllib.parse.quote_plus
quote_plus(s) == [i \in DOMAIN s |-> QuoteChar(s[i])]

----------------------------------------------------------------------------
(* Process environment and the module-level bootstrap (lines 15-31) *)

EnvUnset == [set |-> FALSE, val |-> <<>>]      \* os.getenv(...) is None
EnvVal(chars) == [set |-> TRUE, val |-> chars]

Environs ==
    [MONGO_USER : {EnvUnset, EnvVal(<<"u">>), EnvVal(<<"u", "@">>)},
     MONGO_PASSWORD : {EnvVal(<<>>), EnvVal(<<"p", "@">>)},
     MONGO_HOST : {EnvUnset, EnvVal(<<"h">>)}]

\* Python truthiness of an os.getenv result: None and "" are falsy
Truthy(v) == v.set /\ v.val # <<>>

\* all([MONGO_USER, MONGO_PASSWORD, MONGO_HOST])
AllSetButHost(env) == Truthy(env.MONGO_USER) /\ Truthy(env.MONGO_PASSWORD)
AllSet(env) ==
    Truthy(env.MONGO_USER) /\ Truthy(env.MONGO_PASSWORD) /\ Truthy(env.MONGO_HOST)

\* f"mongodb://{MONGO_USER}:{quote_plus(MONGO_PASSWORD)}@{MONGO_HOST}:27019/?authSource=admin"
MONGO_URI(env) ==
    [scheme |-> <<"mongodb://">>,
     user |-> env.MONGO_USER.val,
     password |-> quote_plus(env.MONGO_PASSWORD.val),
     host |-> env.MONGO_HOST.val,
     rest |-> <<":27019/?authSource=admin">>]

\* MongoClient(MONGO_URI, ...) parses the URI when constructed (it does not
\* connect): a user name or password holding a raw "@", ":", "/" or "%" is
\* rejected with InvalidURI.
RawReserved == {"@", ":", "/", "%"}
UriParses(uri) ==
    /\ \A i \in DOMAIN uri.user : uri.user[i] \notin RawReserved
    /\ \A i \in DOMAIN uri.password : uri.password[i] \notin RawReserved

\* The outcome of importing the module: the handle, or the exception raised
Bootstrap(env) ==
    IF ~AllSet(env) THEN [raised |-> "ValueError", client |-> None]
    ELSE IF ~UriParses(MONGO_URI(env)) THEN [raised |-> "InvalidURI", client |-> None]
    ELSE [raised |-> "none",
          client |-> Some([uri |-> MONGO_URI(env), db |-> MONGO_DB_NAME])]

----------------------------------------------------------------------------
(* The store *)

Collections == {"telemetry_data_clean", "raspberry_pi_telemetry_clean"}
DeviceNames == {"SmartFarm", "raspberry_pi_status"}

\* Timestamps of stored documents: on the lower edge of the first default
\* window, inside every window, and on the upper edge of the second one
Stamps == {0 - Week, -3, 1}

\* Store-side values of _id; text is the printed form (hex digits, digits)
ObjectId(c, i) == [type |-> "ObjectId", text |-> <<c, i>>]
IntId(c, i) == [type |-> "int", text |-> <<c, i>>]

Doc(id, dev, t) ==
    ("_id" :> id) @@ ("deviceName" :> dev) @@ ("timestamp_utc_dt" :> t)
DocNoId(dev, t) == ("deviceName" :> dev) @@ ("timestamp_utc_dt" :> t)

SeqsUpTo(S, n) == UNION {[1..k -> S] : k \in 0..n}

MappedDevice(c) ==
    IF c = "telemetry_data_clean" THEN "SmartFarm" ELSE "raspberry_pi_status"

\* Documents as the store keeps them: every one has an ObjectId
Stored(c, bodies) ==
    [i \in DOMAIN bodies |->
        Doc(ObjectId(c, i), bodies[i].deviceName, bodies[i].timestamp_utc_dt)]

\* At most MaxDocs documents in all, those of collection c drawn from S[c]
StoresOf(S) ==
    {s \in [Collections -> UNION {SeqsUpTo(S[c], MaxDocs) : c \in Collections}] :
        /\ \A c \in Collections : s[c] \in SeqsUpTo(S[c], MaxDocs)
        /\ Len(s["telemetry_data_clean"]) + Len(s["raspberry_pi_telemetry_clean"])
            <= MaxDocs}

\* A collection holds its own device's documents at every stamp, and may hold
\* another device's document dated inside every window
BodiesOf ==
    [c \in Collections |->
        {[deviceName |-> MappedDevice(c), timestamp_utc_dt |-> t] : t \in Stamps}
        \cup {[deviceName |-> d, timestamp_utc_dt |-> -3] : d \in DeviceNames}]

PlainStores ==
    {[c \in Collections |-> Stored(c, s[c])] : s \in StoresOf(BodiesOf)}

\* Documents as a cursor may deliver them in general: no _id, or an _id of
\* another type
IdKinds == {"absent", "ObjectId", "int"}
KindsOf == [c \in Collections |-> IdKinds]
Delivered(c, kinds) ==
    [i \in DOMAIN kinds |->
        IF kinds[i] = "absent" THEN DocNoId(MappedDevice(c), -3)
        ELSE IF kinds[i] = "ObjectId" THEN Doc(ObjectId(c, i), MappedDevice(c), -3)
        ELSE Doc(IntId(c, i), MappedDevice(c), -3)]

MixedIdStores ==
    {[c \in Collections |-> Delivered(c, s[c])] : s \in StoresOf(KindsOf)}

\* Three SmartFarm records at T-10d, T-3d and T-1d
ScenarioStores ==
    {[c \in Collections |->
        IF c = "telemetry_data_clean"
        THEN Stored(c, <<[deviceName |-> "SmartFarm", timestamp_utc_dt |-> T - 10],
                         [deviceName |-> "SmartFarm", timestamp_utc_dt |-> T - 3],
                         [deviceName |-> "SmartFarm", timestamp_utc_dt |-> T - 1]>>)
        ELSE <<>>] : T \in 0..MaxNow}

Stores == PlainStores \cup MixedIdStores \cup ScenarioStores

----------------------------------------------------------------------------
(* mongo_to_json (lines 41-48) *)

\* str(doc['_id'])
Str(v) == [type |-> "str", text |-> v.text]

MongoToJsonRaw(cursor) == cursor
mongo_to_json(cursor) ==
    [i \in DOMAIN cursor |->
        IF "_id" \in DOMAIN cursor[i]
        THEN [cursor[i] EXCEPT !["_id"] = Str(@)]
        ELSE cursor[i]]

----------------------------------------------------------------------------
(* read_root (lines 52-55) *)

Payload == [status |-> "SmartFarm API is running!"]

ReadRootProbe ==
    IF conn = "up" THEN [status |-> 200, detail |-> <<>>, body |-> Payload]
    ELSE [status |-> 503, detail |-> <<"Database unavailable">>, body |-> <<>>]
ReadRootResponse == [status |-> 200, detail |-> <<>>, body |-> Payload]

----------------------------------------------------------------------------
(* get_telemetry_data (lines 57-99) *)

Sources ==
    {smartfarm,
     <<"S","m","a","r","t","F","a","r","m">>,
     <<"R","A","S","P","B","E","R","R","Y","P","I">>,
     <<"u","n","k","n","o","w","n","-","s","o","u","r","c","e">>}

\* Values a caller supplies for start_date and end_date: absent, a stored
\* date, and for the end a later stored date as well
StartDates == {None, Some(-3)}
EndDates == {None, Some(-3), Some(1)}

\* Lines 67-74: the source mapping; None when the source is unknown
ResolveCaseSensitive(source) ==
    IF source = smartfarm
    THEN Some([collection |-> "telemetry_data_clean", device_name |-> "SmartFarm"])
    ELSE IF source = raspberrypi
    THEN Some([collection |-> "raspberry_pi_telemetry_clean",
               device_name |-> "raspberry_pi_status"])
    ELSE None
Resolve(source) ==
    IF Lower(source) = smartfarm
    THEN Some([collection |-> "telemetry_data_clean", device_name |-> "SmartFarm"])
    ELSE IF Lower(source) = raspberrypi
    THEN Some([collection |-> "raspberry_pi_telemetry_clean",
               device_name |-> "raspberry_pi_status"])
    ELSE None

\* The mapping of every source a caller sends
Resolved == [s \in Sources |-> Resolve(s)]

SourceNotFound ==
    [status |-> 404,
     detail |-> <<"Source not found. Use '", "smartfarm", "' or '", "raspberrypi", "'.">>,
     body |-> <<>>]

\* Lines 77-80: each absent bound is read from the clock.  The two reads of
\* datetime.utcnow() are a few instructions apart: at the model's resolution
\* (days) they return the same value, passed here as clock.
DefaultStartAtBoot(start_date, clock) ==
    IF start_date = None THEN 0 - Week ELSE start_date[1]
DefaultStart(start_date, clock) ==
    IF start_date = None THEN clock - Week ELSE start_date[1]
DefaultEnd(end_date, clock) ==
    IF end_date = None THEN clock ELSE end_date[1]

\* Lines 84-90
Query(device_name, start_date, end_date) ==
    [deviceName |-> device_name,
     timestamp_utc_dt |-> [gte |-> start_date, lte |-> end_date]]

\* The store's evaluation of the filter on one document
MatchesExclusiveEnd(doc, query) ==
    /\ doc["deviceName"] = query.deviceName
    /\ doc["timestamp_utc_dt"] >= query.timestamp_utc_dt.gte
    /\ doc["timestamp_utc_dt"] < query.timestamp_utc_dt.lte
Matches(doc, query) ==
    /\ doc["deviceName"] = query.deviceName
    /\ doc["timestamp_utc_dt"] >= query.timestamp_utc_dt.gte
    /\ doc["timestamp_utc_dt"] <= query.timestamp_utc_dt.lte

\* What collection.find(query) delivers, in natural order, when the store answers
Find(docs, query) == SelectSeq(docs, LAMBDA d : Matches(d, query))

\* Exceptions: the store's (pymongo) and the handler's own HTTPException
NoException == [type |-> "none", text |-> <<>>]
StoreError(type) == [type |-> type, text |-> <<type, " raised by the store">>]
HTTPException(status_code, detail) ==
    [type |-> "HTTPException", text |-> <<ToString(status_code), ": ", detail>>]
NoData == HTTPException(404, "No data found for the specified range.")

\* What draining the cursor raises: the client connects lazily, so an
\* unreachable store shows here (server selection times out); a reachable
\* store may still refuse the operation.
StoreFault(reachable, operr) ==
    IF reachable # "up" THEN "ServerSelectionTimeoutError"
    ELSE IF operr THEN "OperationFailure"
    ELSE "none"

\* Whether a reachable store refuses the operation (an unreachable one
\* cannot answer at all)
StoreRefusals == IF conn = "up" THEN BOOLEAN ELSE {FALSE}

\* Line 98-99: except Exception as e -> 500 with str(e)
ExceptHandlerGeneric(e) ==
    [status |-> 500, detail |-> <<"Database query failed">>, body |-> <<>>]
ExceptHandlerUnavailable(e) ==
    [status |-> IF e.type = "ServerSelectionTimeoutError" THEN 503 ELSE 500,
     detail |-> <<"Database query failed: ">> \o e.text, body |-> <<>>]
ExceptHandler(e) ==
    [status |-> 500, detail |-> <<"Database query failed: ">> \o e.text, body |-> <<>>]

\* The queries the handler sends for one request
QueriesWithRetry(collection, query, storeFault) ==
    IF storeFault = "none"
    THEN <<[collection |-> collection, filter |-> query]>>
    ELSE <<[collection |-> collection, filter |-> query],
           [collection |-> collection, filter |-> query]>>
Queries(collection, query, storeFault) ==
    <<[collection |-> collection, filter |-> query]>>

\* Lines 83-99: the try block.  Everything raised inside it, the handler's
\* own 404 included, reaches the except clause.
TryBlock(docs, query, storeFault) ==
    LET json_results == mongo_to_json(Find(docs, query))
        raised == IF storeFault # "none" THEN StoreError(storeFault)
                  ELSE IF json_results = <<>> THEN NoData
                  ELSE NoException
    IN  IF raised = NoException
        THEN [status |-> 200, detail |-> <<>>, body |-> json_results]
        ELSE ExceptHandler(raised)

\* The whole handler: its response, the queries it issued, the store's fault
Handle(source, start_date, end_date, operr) ==
    LET target == Resolved[source] IN
    IF target = None
    THEN [resp |-> SourceNotFound, issued |-> <<>>, fault |-> "none"]
    ELSE LET collection == target[1].collection
             query == Query(target[1].device_name,
                            DefaultStart(start_date, now),
                            DefaultEnd(end_date, now))
             storeFault == StoreFault(conn, operr)
         IN  [resp |-> TryBlock(store[collection], query, storeFault),
              issued |-> Queries(collection, query, storeFault),
              fault |-> storeFault]

----------------------------------------------------------------------------
(* The state machine *)

NoRequest == [op |-> "none", source |-> <<>>, start_date |-> None, end_date |-> None]
NoResponse == [status |-> 0, detail |-> <<>>, body |-> <<>>]

Init ==
    /\ pc = "boot"
    /\ environ \in Environs
    /\ client = None
    /\ conn \in {"up", "down"}
    /\ store \in Stores
    /\ now = 0
    /\ req = NoRequest
    /\ resp = NoResponse
    /\ issued = <<>>
    /\ fault = "none"

\* Importing api_server (lines 15-38): an exception at module level ends the process
Startup ==
    /\ pc = "boot"
    /\ pc' = IF Bootstrap(environ).raised = "none" THEN "running" ELSE "aborted"
    /\ client' = Bootstrap(environ).client
    /\ UNCHANGED <<environ, conn, store, now, req, resp, issued, fault>>

read_root ==
    /\ pc = "running"
    /\ req' = [NoRequest EXCEPT !.op = "read_root"]
    /\ resp' = ReadRootResponse
    /\ issued' = <<>>
    /\ fault' = "none"
    /\ UNCHANGED <<pc, environ, client, conn, store, now>>

get_telemetry_data ==
    /\ pc = "running"
    /\ \E source \in Sources, start_date \in StartDates, end_date \in EndDates,
          operr \in StoreRefusals :
        LET h == Handle(source, start_date, end_date, operr) IN
        /\ req' = [op |-> "get_telemetry_data", source |-> source,
                   start_date |-> start_date, end_date |-> end_date]
        /\ resp' = h.resp
        /\ issued' = h.issued
        /\ fault' = h.fault
    /\ UNCHANGED <<pc, environ, client, conn, store, now>>

\* The environment: time passes, the store becomes unreachable or reachable.
\* The response has been sent by then: req, resp, issued and fault describe
\* the request answered last, while nothing else has happened since.
Sent ==
    /\ req' = NoRequest
    /\ resp' = NoResponse
    /\ issued' = <<>>
    /\ fault' = "none"

Tick ==
    /\ pc = "running"
    /\ now < MaxNow
    /\ now' = now + 1
    /\ Sent
    /\ UNCHANGED <<pc, environ, client, conn, store>>

StoreLost ==
    /\ pc = "running"
    /\ conn = "up"
    /\ conn' = "down"
    /\ Sent
    /\ UNCHANGED <<pc, environ, client, store, now>>

StoreBack ==
    /\ pc = "running"
    /\ conn = "down"
    /\ conn' = "up"
    /\ Sent
    /\ UNCHANGED <<pc, environ, client, store, now>>

Next == Startup \/ read_root \/ get_telemetry_data \/ Tick \/ StoreLost \/ StoreBack

Spec == Init /\ [][Next]_vars

TypeOK ==
    /\ pc \in {"boot", "running", "aborted"}
    /\ conn \in {"up", "down"}
    /\ now \in 0..MaxNow
    /\ resp.status \in {0, 200, 404, 500}
    /\ fault \in {"none", "ServerSelectionTimeoutError", "OperationFailure"}

----------------------------------------------------------------------------
(* Vocabulary of the properties *)

IsData == req.op = "get_telemetry_data"
IsStatus == req.op = "read_root"
KnownSource == Lower(req.source) = smartfarm \/ Lower(req.source) = raspberrypi
NoRange == req.start_date = None /\ req.end_date = None
ExplicitRange == req.start_date # None /\ req.end_date # None

\* The collection and device name the source mapping table gives
WantedCollection ==
    IF Lower(req.source) = smartfarm THEN "telemetry_data_clean"
    ELSE "raspberry_pi_telemetry_clean"
WantedDevice ==
    IF Lower(req.source) = smartfarm THEN "SmartFarm" ELSE "raspberry_pi_status"

\* The stored records of the wanted collection and device dated in [lo, hi]
InWindow(lo, hi) ==
    SelectSeq(store[WantedCollection],
              LAMBDA d : /\ d["deviceName"] = WantedDevice
                         /\ lo <= d["timestamp_utc_dt"]
                         /\ d["timestamp_utc_dt"] <= hi)

\* Record by record, the same device, date and identifier text
SameRecords(returned, stored) ==
    /\ Len(returned) = Len(stored)
    /\ \A i \in DOMAIN stored :
        /\ DOMAIN returned[i] = DOMAIN stored[i]
        /\ returned[i]["deviceName"] = stored[i]["deviceName"]
        /\ returned[i]["timestamp_utc_dt"] = stored[i]["timestamp_utc_dt"]
        /\ "_id" \in DOMAIN stored[i] => returned[i]["_id"].text = stored[i]["_id"].text

StampsOf(docs) == [i \in DOMAIN docs |-> docs[i]["timestamp_utc_dt"]]

----------------------------------------------------------------------------
(* C1: a data request with a known source whose query runs without a store
   error and matches no record is answered 404 with the 'no data' detail,
   never with a 500 and never with an empty success. *)
C1_EmptyResultIs404 ==
    (IsData /\ KnownSource /\ fault = "none"
        /\ Find(store[WantedCollection], issued[1].filter) = <<>>)
    => /\ resp.status = 404
       /\ resp.detail = <<"No data found for the specified range.">>

C3_SourceResolution ==
    IsData =>
        /\ Lower(req.source) = smartfarm =>
            /\ Len(issued) = 1
            /\ issued[1].collection = "telemetry_data_clean"
            /\ issued[1].filter.deviceName = "SmartFarm"
        /\ Lower(req.source) = raspberrypi =>
            /\ Len(issued) = 1
            /\ issued[1].collection = "raspberry_pi_telemetry_clean"
            /\ issued[1].filter.deviceName = "raspberry_pi_status"
        /\ ~KnownSource =>
            /\ resp.status = 404
            /\ \E i \in DOMAIN resp.detail : resp.detail[i] = "smartfarm"
            /\ \E i \in DOMAIN resp.detail : resp.detail[i] = "raspberrypi"
            /\ issued = <<>>

C3_Witness ==
    /\ IsData
    /\ req.source # Lower(req.source)
    /\ Lower(req.source) = raspberrypi
    /\ Len(issued) = 1
    /\ issued[1].collection = "raspberry_pi_telemetry_clean"

(* C4: a successful data request with an explicit window returns exactly the
   records of the mapped collection with the mapped device name dated
   start_date <= t <= end_date, both bounds inclusive, for both sources. *)
C4_WindowExact ==
    (IsData /\ ExplicitRange /\ resp.status = 200)
    => SameRecords(resp.body, InWindow(req.start_date[1], req.end_date[1]))

\* A record dated on the end bound is returned while one of the same device,
\* in the same collection, dated before the start bound is not
C4_Witness ==
    /\ IsData /\ ExplicitRange /\ resp.status = 200
    /\ req.start_date[1] < req.end_date[1]
    /\ \E i \in DOMAIN resp.body :
        resp.body[i]["timestamp_utc_dt"] = req.end_date[1]
    /\ \E i \in DOMAIN store[WantedCollection] :
        /\ store[WantedCollection][i]["deviceName"] = WantedDevice
        /\ store[WantedCollection][i]["timestamp_utc_dt"] < req.start_date[1]

(* C5: each absent bound is defaulted, independently, from the clock at the
   time of the request (start: now - 7 days, end: now), a supplied bound is
   used as given; so a no-range request over records at now-10d, now-3d and
   now-1d returns exactly the two most recent. *)
C5_DefaultWindow ==
    (IsData /\ KnownSource) =>
        /\ issued[1].filter.timestamp_utc_dt.gte =
              (IF req.start_date = None THEN now - 7 ELSE req.start_date[1])
        /\ issued[1].filter.timestamp_utc_dt.lte =
              (IF req.end_date = None THEN now ELSE req.end_date[1])
        /\ (/\ NoRange /\ fault = "none"
            /\ WantedCollection = "telemetry_data_clean"
            /\ StampsOf(store["telemetry_data_clean"]) = <<now - 10, now - 3, now - 1>>
            /\ \A i \in 1..3 : store["telemetry_data_clean"][i]["deviceName"] = "SmartFarm")
           => /\ resp.status = 200
              /\ StampsOf(resp.body) = <<now - 3, now - 1>>

\* The scenario, asked after the clock has moved on from process start
C5_Witness ==
    /\ IsData /\ NoRange /\ now > 0
    /\ StampsOf(store["telemetry_data_clean"]) = <<now - 10, now - 3, now - 1>>
    /\ resp.status = 200
    /\ StampsOf(resp.body) = <<now - 3, now - 1>>

(* C6: in a successful data response the records are those the query
   delivered, as many and in the same order, each with its _id replaced by
   its string form and every other field as stored; a record without _id is
   returned unchanged. *)
C6_IdsNormalised ==
    (IsData /\ resp.status = 200) =>
        LET delivered == Find(store[issued[1].collection], issued[1].filter) IN
        /\ Len(resp.body) = Len(delivered)
        /\ \A i \in DOMAIN delivered :
            IF "_id" \in DOMAIN delivered[i]
            THEN /\ DOMAIN resp.body[i] = DOMAIN delivered[i]
                 /\ resp.body[i]["_id"].type = "str"
                 /\ resp.body[i]["_id"].text = delivered[i]["_id"].text
                 /\ \A f \in DOMAIN delivered[i] \ {"_id"} :
                        resp.body[i][f] = delivered[i][f]
            ELSE resp.body[i] = delivered[i]

\* Two records returned in order: one with an ObjectId, one without _id
C6_Witness ==
    /\ IsData /\ resp.status = 200 /\ Len(resp.body) = 2
    /\ "_id" \in DOMAIN resp.body[1]
    /\ store[issued[1].collection][1]["_id"].type = "ObjectId"
    /\ "_id" \notin DOMAIN resp.body[2]

(* C7: every data request ends in a success with a non-empty array or in a
   404, 503 or 500 error, the process stays up, and when the store reports
   an operation-level error the response is 500 with the store's error text
   in the detail. *)
C7_FailuresBecomeResponses ==
    IsData =>
        /\ pc = "running"
        /\ \/ resp.status = 200 /\ resp.body # <<>>
           \/ resp.status \in {404, 503, 500} /\ resp.body = <<>>
        /\ fault = "OperationFailure" =>
            /\ resp.status = 500
            /\ \E i \in DOMAIN resp.detail : resp.detail[i] = "OperationFailure"
            /\ \E i \in DOMAIN resp.detail : resp.detail[i] = " raised by the store"

C7_Witness ==
    IsData /\ fault = "OperationFailure" /\ resp.status = 500

(* C8 as claimed: process start never aborts. *)
C8_StartNeverAborts == pc # "aborted"

(* C8 as amended: process start never aborts because the store is
   unreachable: it aborts exactly when one of MONGO_USER, MONGO_PASSWORD and
   MONGO_HOST is unset or empty, or the user name holds a raw reserved
   character; otherwise the process comes up whatever the state of the
   store, and while the store is unreachable the status request answers and
   data requests answer with an error status. *)
C8_AbortsOnlyOnConfiguration ==
    /\ pc # "boot" =>
        (pc = "running" <=>
            /\ \A k \in {"MONGO_USER", "MONGO_PASSWORD", "MONGO_HOST"} :
                  environ[k].set /\ Len(environ[k].val) > 0
            /\ \A i \in DOMAIN environ.MONGO_USER.val :
                  environ.MONGO_USER.val[i] \notin {"@", ":", "/", "%"})
    /\ (pc = "running" /\ conn = "down") =>
        /\ ENABLED read_root
        /\ IsStatus => resp.status = 200
        /\ IsData => resp.status \in {404, 500}

C8_Witness ==
    pc = "running" /\ conn = "down" /\ IsData /\ resp.status = 500

(* C9: requests are read-only and one-shot: a status or data request leaves
   the store's contents and the connection handle as they were, and a data
   request issues exactly one query when the source is known and none
   otherwise, also when the query fails. *)
C9_ReadOnlyOneShot ==
    [][ req'.op # "none" =>
          /\ store' = store
          /\ client' = client
          /\ req'.op = "read_root" => issued' = <<>>
          /\ req'.op = "get_telemetry_data" =>
                Len(issued') = (IF Lower(req'.source) = smartfarm
                                   \/ Lower(req'.source) = raspberrypi
                                THEN 1 ELSE 0) ]_vars

\* A query that failed and was not sent again
C9_Witness ==
    IsData /\ fault # "none" /\ Len(issued) = 1 /\ resp.status = 500

(* C10: the status request can be made in every state of the running
   process and always succeeds with the fixed payload, without a store
   query, whatever the state of the store. *)
C10_StatusAlwaysSucceeds ==
    /\ pc = "running" => ENABLED read_root
    /\ IsStatus =>
        /\ resp.status = 200
        /\ resp.body = [status |-> "SmartFarm API is running!"]
        /\ issued = <<>>
        /\ fault = "none"

C10_Witness ==
    IsStatus /\ conn = "down" /\ resp.status = 200

=============================================================================
